---- MODULE Spec2Model ----
(***************************************************************************)
(* A model of the task manager: the createTask mutation, the list page's   *)
(* filter and sort state (App), the comment form (Comments) and the edit   *)
(* page (EditTaskPage).                                                    *)
(*                                                                         *)
(* JavaScript values of more than one type are tagged records, so that     *)
(* null, undefined, a document id and a string stay distinct values.       *)
(***************************************************************************)
EXTENDS Integers, Sequences, FiniteSets, TLC

VARIABLES
  tasks,        \* the 'tasks' table, in creation order (last = most recent)
  lastCall,     \* history: the most recent createTask call and its outcome
  statusFilter, \* App: useState([Status.New, Status['In Progress']])
  ownerFilter,  \* App: useState(OWNER_VALUES)
  sortKey,      \* App: useState(SortKey.NUMBER)
  sortOrder,    \* App: useState(SortOrder.DESC)
  hist,         \* history: the last (at most two) App events, each with the state before it
  newComment,   \* Comments: useState('')
  pending,      \* Comments: the saveComment calls in flight (their drafts)
  saveCalls,    \* Comments: how many times saveComment was invoked
  lastSubmit,   \* history: the most recently settled submit of the comment form
  editUser,     \* EditTaskPage: useQuery('getCurrentUser')
  editTask,     \* EditTaskPage: useQuery('getTask', taskNumber)
  editView      \* EditTaskPage: what the last render returned

taskVars == <<tasks, lastCall>>
appVars == <<statusFilter, ownerFilter, sortKey, sortOrder, hist>>
commentVars == <<newComment, pending, saveCalls, lastSubmit>>
editVars == <<editUser, editTask, editView>>
vars == <<taskVars, appVars, commentVars, editVars>>

(***************************************************************************)
(* Bounds of the model.                                                    *)
(***************************************************************************)
MaxTasks == 2
MaxPending == 2
MaxSaveCalls == 3

(***************************************************************************)
(* JavaScript values.                                                      *)
(***************************************************************************)
Null == [t |-> "null"]
Undefined == [t |-> "undefined"]
Str(s) == [t |-> "string", v |-> s]
Id(table, s) == [t |-> "id", tableName |-> table, id |-> s]

\* Id.toString(): the id's string, without the table name
IdToString(i) == i.id

\* { ...a, ...b }: the fields of b override those of a
Spread(a, b) == [k \in DOMAIN a \cup DOMAIN b |-> IF k \in DOMAIN b THEN b[k] ELSE a[k]]

(***************************************************************************)
(* The users table and the identity resolver.                              *)
(***************************************************************************)
UserDoc(s, n) == [t |-> "doc", _id |-> Id("users", s), name |-> Str(n)]
Users == {UserDoc("u1", "Ann"), UserDoc("u2", "Bob")}

\* auth: no identity, the identities of the two users, an identity without a user record
Auths == {"none", "u1", "u2", "stranger"}

findUser(db, auth) ==
  IF \E u \in Users : IdToString(u._id) = auth
    THEN CHOOSE u \in Users : IdToString(u._id) = auth
    ELSE Null

(***************************************************************************)
(* createTask                                                              *)
(***************************************************************************)
\* The payloads a client can send: NewTaskInfo is erased at run time, so a
\* payload may carry a field of the stored document (ownerId, as the new-task
\* page's initial task info does, ownerName or number) besides its owner.
OwnerIds == {"", "u1", "u2"}
Owners == {Null} \cup {[id |-> i] : i \in OwnerIds}
ExtraFields == {<<>>, [ownerId |-> Null], [ownerName |-> Null], [number |-> 1]}
TaskInfos == {[owner |-> o] @@ x : o \in Owners, x \in ExtraFields}

\* line 8: !user
identityMissing(user) == user = Null

\* line 12: taskInfo.owner?.id && taskInfo.owner.id !== user._id.toString()
ownerMismatch_inverted(user, taskInfo) ==
  /\ taskInfo.owner # Null
  /\ taskInfo.owner.id # ""
  /\ taskInfo.owner.id = IdToString(user._id)

ownerMismatch(user, taskInfo) ==
  /\ taskInfo.owner # Null
  /\ taskInfo.owner.id # ""
  /\ taskInfo.owner.id # IdToString(user._id)

\* line 21: db.query('tasks').order('desc').first()
lastCreatedTask(db) == IF Len(db) = 0 THEN Null ELSE db[Len(db)]

\* line 22: lastCreatedTask ? lastCreatedTask.number + 1 : 1
number(last) == IF last # Null THEN last.number + 1 ELSE 1

\* lines 26-33: the document handed to db.insert
newTaskDoc(user, taskInfo, n) ==
  Spread([ownerId |-> IF taskInfo.owner # Null THEN user._id ELSE Null,
          ownerName |-> IF taskInfo.owner # Null THEN user.name ELSE Null,
          commentCount |-> 0,
          fileCount |-> 0,
          number |-> n],
         taskInfo)

Thrown(msg, db, read) == [ok |-> FALSE, error |-> msg, tasks |-> db, readTasks |-> read]

createTask_queryFirst(db, auth, taskInfo) ==
  LET user == findUser(db, auth)
      n == number(lastCreatedTask(db)) IN
  IF identityMissing(user)
    THEN Thrown("User identity not found", db, TRUE)
  ELSE IF ownerMismatch(user, taskInfo)
    THEN Thrown("Current user and task owner do not match", db, TRUE)
  ELSE [ok |-> TRUE, error |-> "", readTasks |-> TRUE,
        tasks |-> Append(db, newTaskDoc(user, taskInfo, n))]

createTask(db, auth, taskInfo) ==
  LET user == findUser(db, auth) IN
  IF identityMissing(user)
    THEN Thrown("User identity not found", db, FALSE)
  ELSE IF ownerMismatch(user, taskInfo)
    THEN Thrown("Current user and task owner do not match", db, FALSE)
  ELSE [ok |-> TRUE, error |-> "", readTasks |-> TRUE,
        tasks |-> Append(db, newTaskDoc(user, taskInfo, number(lastCreatedTask(db))))]

NoCall == [kind |-> "none"]

\* One mutation, run atomically by the backend, for any client and payload.
CreateTask ==
  /\ Len(tasks) < MaxTasks
  /\ \E auth \in Auths, taskInfo \in TaskInfos :
       LET r == createTask(tasks, auth, taskInfo) IN
       /\ tasks' = r.tasks
       /\ lastCall' = [kind |-> "createTask", auth |-> auth, taskInfo |-> taskInfo,
                       user |-> findUser(tasks, auth), before |-> tasks,
                       ok |-> r.ok, error |-> r.error, readTasks |-> r.readTasks]
  /\ UNCHANGED <<appVars, commentVars, editVars>>

(***************************************************************************)
(* App: the filter and sort state of the task list                         *)
(***************************************************************************)
\* enum Status: New = 0, 'In Progress' = 1, Done = 2
Status_New == 0
Status_InProgress == 1
Status_Done == 2
STATUS_VALUES == <<Status_New, Status_InProgress, Status_Done>>
OWNER_VALUES == <<"Me", "Others", "Nobody">>
SortKeys == {"number", "title", "status", "owner", "comments"}
SortKey_NUMBER == "number"
SortOrder_ASC == "asc"
SortOrder_DESC == "desc"

\* The value attribute of a checkbox is a string; +value converts it.
NaN == -1
ToNumber(str) ==
  CASE str = "0" -> 0
    [] str = "1" -> 1
    [] str = "2" -> 2
    [] str = "3" -> 3
    [] OTHER -> NaN
\* s === n for numbers: NaN equals nothing
StrictEqNum(s, n) == s # NaN /\ n # NaN /\ s = n

StatusInputs == {"0", "1", "2", "3", "abc"}
OwnerInputs == {"Me", "Others", "Nobody", "Everyone"}

includes(list, x) == \E i \in 1..Len(list) : list[i] = x

\* lines 145-155
onChangeStatus_append(filter, value, checked) ==
  IF checked THEN Append(filter, ToNumber(value))
  ELSE SelectSeq(filter, LAMBDA s : ~StrictEqNum(s, ToNumber(value)))

onChangeStatus(filter, value, checked) ==
  IF checked
    THEN SelectSeq(STATUS_VALUES,
                   LAMBDA s : includes(filter, s) \/ StrictEqNum(s, ToNumber(value)))
    ELSE SelectSeq(filter, LAMBDA s : ~StrictEqNum(s, ToNumber(value)))

\* lines 158-168
onChangeOwner_append(filter, value, checked) ==
  IF checked THEN Append(filter, value)
  ELSE SelectSeq(filter, LAMBDA s : s # value)

onChangeOwner(filter, value, checked) ==
  IF checked
    THEN SelectSeq(OWNER_VALUES, LAMBDA s : includes(filter, s) \/ s = value)
    ELSE SelectSeq(filter, LAMBDA s : s # value)

\* lines 183-194: the next (key, order)
onChangeSort_keepOrder(curKey, curOrder, key) ==
  IF curKey = key
    THEN [key |-> curKey,
          order |-> IF curOrder = SortOrder_ASC THEN SortOrder_DESC ELSE SortOrder_ASC]
    ELSE [key |-> key, order |-> curOrder]

onChangeSort(curKey, curOrder, key) ==
  IF curKey = key
    THEN [key |-> curKey,
          order |-> IF curOrder = SortOrder_ASC THEN SortOrder_DESC ELSE SortOrder_ASC]
    ELSE [key |-> key, order |-> SortOrder_ASC]

\* lines 207-215: the arguments of the listTasks query of the current render
listTasksArgs ==
  [statusFilter |-> statusFilter, ownerFilter |-> ownerFilter,
   sortKey |-> sortKey, sortOrder |-> sortOrder]

AppState ==
  [status |-> statusFilter, owner |-> ownerFilter, key |-> sortKey, order |-> sortOrder]

\* the last two events
Record(ev) == IF Len(hist) = 0 THEN <<ev>> ELSE <<hist[Len(hist)], ev>>

ChangeStatus ==
  /\ \E value \in StatusInputs, checked \in BOOLEAN :
       /\ statusFilter' = onChangeStatus(statusFilter, value, checked)
       /\ hist' = Record([kind |-> "status", value |-> value, checked |-> checked,
                          before |-> AppState])
  /\ UNCHANGED <<ownerFilter, sortKey, sortOrder, taskVars, commentVars, editVars>>

ChangeOwner ==
  /\ \E value \in OwnerInputs, checked \in BOOLEAN :
       /\ ownerFilter' = onChangeOwner(ownerFilter, value, checked)
       /\ hist' = Record([kind |-> "owner", value |-> value, checked |-> checked,
                          before |-> AppState])
  /\ UNCHANGED <<statusFilter, sortKey, sortOrder, taskVars, commentVars, editVars>>

ChangeSort ==
  /\ \E key \in SortKeys :
       LET next == onChangeSort(sortKey, sortOrder, key) IN
       /\ sortKey' = next.key
       /\ sortOrder' = next.order
       /\ hist' = Record([kind |-> "sort", value |-> key, checked |-> FALSE,
                          before |-> AppState])
  /\ UNCHANGED <<statusFilter, ownerFilter, taskVars, commentVars, editVars>>

(***************************************************************************)
(* Comments: the comment form                                              *)
(***************************************************************************)
Drafts == {"", "a", "b"}
NoSubmit == [outcome |-> "none"]

\* line 46: onChange={(event) => setNewComment(event.target.value)}
\* Typing while a call is in flight marks that call: the draft it finds when
\* it settles is then the user's doing.
TypeComment ==
  /\ \E v \in Drafts :
       /\ v # newComment
       /\ newComment' = v
  /\ pending' = [i \in 1..Len(pending) |-> [pending[i] EXCEPT !.touched = TRUE]]
  /\ lastSubmit' = NoSubmit
  /\ UNCHANGED <<saveCalls, taskVars, appVars, editVars>>

\* lines 32-36, up to the await; line 54: the submit button is disabled
\* while the draft is empty
handleAddComment(draft) == ""

HandleAddComment ==
  /\ newComment # ""
  /\ Len(pending) < MaxPending
  /\ saveCalls < MaxSaveCalls
  /\ newComment' = handleAddComment(newComment)
  /\ pending' = Append([i \in 1..Len(pending) |-> [pending[i] EXCEPT !.touched = TRUE]],
                       [body |-> newComment, touched |-> FALSE, calls |-> saveCalls + 1])
  /\ saveCalls' = saveCalls + 1
  /\ lastSubmit' = NoSubmit
  /\ UNCHANGED <<taskVars, appVars, editVars>>

Remove(seq, i) == [j \in 1..(Len(seq) - 1) |-> IF j < i THEN seq[j] ELSE seq[j + 1]]

\* line 35: the awaited saveComment call resolves; the handler ends
SaveCommentResolves ==
  /\ \E i \in 1..Len(pending) :
       /\ pending' = Remove(pending, i)
       /\ lastSubmit' = [outcome |-> "resolved", body |-> pending[i].body,
                         touched |-> pending[i].touched, calls |-> pending[i].calls]
  /\ UNCHANGED <<newComment, saveCalls, taskVars, appVars, editVars>>

\* line 35: the awaited saveComment call rejects; the handler ends with the
\* rejection, nothing is caught and nothing is called again
SaveCommentRejects ==
  /\ \E i \in 1..Len(pending) :
       /\ pending' = Remove(pending, i)
       /\ lastSubmit' = [outcome |-> "rejected", body |-> pending[i].body,
                         touched |-> pending[i].touched, calls |-> pending[i].calls]
  /\ UNCHANGED <<newComment, saveCalls, taskVars, appVars, editVars>>

(***************************************************************************)
(* EditTaskPage                                                            *)
(***************************************************************************)
TaskDoc(n, owner) == [t |-> "doc", number |-> n, ownerId |-> owner]
UserResults == {Undefined, Null} \cup Users
TaskResults ==
  {Undefined, Null} \cup
  {TaskDoc(n, o) : n \in 1..2, o \in {Null} \cup {u._id : u \in Users}}

Falsy(v) == v \in {Null, Undefined}

\* Id.equals(other): false unless other is an id of the same table and string
IdEquals(id, other) ==
  other.t = "id" /\ other.tableName = id.tableName /\ other.id = id.id

\* line 17: user && task && user._id.equals(task.ownerId)
isOwner_noUserGuard(user, task) ==
  IF Falsy(task) THEN "falsy"
  ELSE IF Falsy(user) THEN "TypeError"
  ELSE IF IdEquals(user._id, task.ownerId) THEN "true" ELSE "false"

isOwner(user, task) ==
  IF Falsy(user) THEN "falsy"
  ELSE IF Falsy(task) THEN "falsy"
  ELSE IF IdEquals(user._id, task.ownerId) THEN "true" ELSE "false"

\* lines 6-37: what a render returns
EditTaskPage(user, task) ==
  IF task = Null THEN [kind |-> "not_found"]
  ELSE IF ~Falsy(task) THEN
    LET owner == isOwner(user, task) IN
    IF owner = "TypeError" THEN [kind |-> "throws"]
    ELSE IF owner # "true" THEN [kind |-> "no_permission"]
    ELSE [kind |-> "form", mutationName |-> "updateTask",
          user |-> user, initialTaskInfo |-> task]
  ELSE [kind |-> "nothing"]

\* line 7: the getCurrentUser subscription delivers a result; the page renders
CurrentUserResult ==
  /\ \E u \in UserResults :
       /\ u # editUser
       /\ editUser' = u
       /\ editView' = EditTaskPage(u, editTask)
  /\ UNCHANGED <<editTask, taskVars, appVars, commentVars>>

\* line 8: the getTask subscription delivers a result; the page renders
GetTaskResult ==
  /\ \E task \in TaskResults :
       /\ task # editTask
       /\ editTask' = task
       /\ editView' = EditTaskPage(editUser, task)
  /\ UNCHANGED <<editUser, taskVars, appVars, commentVars>>

(***************************************************************************)
(* Specifications                                                          *)
(***************************************************************************)
Init ==
  /\ tasks = <<>>
  /\ lastCall = NoCall
  /\ statusFilter = <<Status_New, Status_InProgress>>
  /\ ownerFilter = OWNER_VALUES
  /\ sortKey = SortKey_NUMBER
  /\ sortOrder = SortOrder_DESC
  /\ hist = <<>>
  /\ newComment = ""
  /\ pending = <<>>
  /\ saveCalls = 0
  /\ lastSubmit = NoSubmit
  /\ editUser = Undefined
  /\ editTask = Undefined
  /\ editView = EditTaskPage(Undefined, Undefined)

NextTasks == CreateTask
NextApp == ChangeStatus \/ ChangeOwner \/ ChangeSort
NextPages ==
  \/ TypeComment
  \/ HandleAddComment
  \/ SaveCommentResolves
  \/ SaveCommentRejects
  \/ CurrentUserResult
  \/ GetTaskResult
Next == NextTasks \/ NextApp \/ NextPages

\* the backend: createTask mutations, each run atomically
SpecTasks == Init /\ [][NextTasks]_vars
\* the list page's filter and sort state
SpecApp == Init /\ [][NextApp]_vars
\* the comment form and the edit page
SpecPages == Init /\ [][NextPages]_vars
Spec == Init /\ [][Next]_vars

(***************************************************************************)
(* Properties                                                              *)
(***************************************************************************)
Range(seq) == {seq[i] : i \in 1..Len(seq)}
NoDuplicates(seq) == \A i, j \in 1..Len(seq) : i # j => seq[i] # seq[j]
MaxNumber(db) ==
  IF Len(db) = 0 THEN 0
  ELSE CHOOSE m \in {db[i].number : i \in 1..Len(db)} :
         \A i \in 1..Len(db) : db[i].number <= m
Created == lastCall.kind = "createTask" /\ lastCall.ok
Failed == lastCall.kind = "createTask" /\ ~lastCall.ok
LastEvent == hist[Len(hist)]

\* C1: starting from an empty table, the tasks created by any sequence of
\* atomically run createTask calls are numbered 1, 2, ..., n in creation
\* order: no gaps and no duplicates.
C1_NumbersAreOneToN ==
  \A i \in 1..Len(tasks) : tasks[i].number = i

\* C2, as stated: a call whose payload names an owner with an id other than
\* the resolved user's id fails and leaves the task table as it was.
C2_MismatchedOwnerFails ==
  ( /\ lastCall.kind = "createTask"
    /\ lastCall.user # Null
    /\ lastCall.taskInfo.owner # Null
    /\ lastCall.taskInfo.owner.id # IdToString(lastCall.user._id) )
  => (~lastCall.ok /\ tasks = lastCall.before)

\* C2, amended: a call whose payload names an owner with a non-empty id
\* other than the resolved user's id fails with the owner-mismatch error and
\* leaves the task table as it was.
C2_NonEmptyMismatchedOwnerFails ==
  ( /\ lastCall.kind = "createTask"
    /\ lastCall.user # Null
    /\ lastCall.taskInfo.owner # Null
    /\ lastCall.taskInfo.owner.id # ""
    /\ lastCall.taskInfo.owner.id # IdToString(lastCall.user._id) )
  => ( /\ ~lastCall.ok
       /\ lastCall.error = "Current user and task owner do not match"
       /\ tasks = lastCall.before )

C2_Witness ==
  /\ Failed
  /\ lastCall.user # Null
  /\ lastCall.taskInfo.owner # Null
  /\ lastCall.taskInfo.owner.id \notin {"", IdToString(lastCall.user._id)}
  /\ Len(tasks) > 0

\* C3: a call for which no user is resolved (no identity, or an identity
\* without a user record) fails with the identity error before the task
\* table is read or written; the table is as it was.
C3_NoUserNoAccess ==
  (lastCall.kind = "createTask" /\ lastCall.user = Null)
  => ( /\ ~lastCall.ok
       /\ lastCall.error = "User identity not found"
       /\ ~lastCall.readTasks
       /\ tasks = lastCall.before )

C3_Witness ==
  /\ Failed
  /\ lastCall.auth = "stranger"
  /\ lastCall.user = Null
  /\ Len(tasks) > 0

\* C4: the task a successful call stores has ownerId and ownerName both
\* null, or both set to the id and the name of the authenticated user.
C4_OwnerIdAndNameTogether ==
  Created =>
    LET doc == tasks[Len(tasks)] IN
    \/ doc.ownerId = Null /\ doc.ownerName = Null
    \/ doc.ownerId = lastCall.user._id /\ doc.ownerName = lastCall.user.name

\* C5: a click on the active sort column keeps the key and reverses the
\* order; a click on another column makes it the key and the order ascending.
C5_SortClick ==
  (Len(hist) > 0 /\ LastEvent.kind = "sort") =>
    LET was == LastEvent.before
        key == LastEvent.value IN
    IF was.key = key
      THEN /\ sortKey = was.key
           /\ was.order = "asc" => sortOrder = "desc"
           /\ was.order = "desc" => sortOrder = "asc"
      ELSE sortKey = key /\ sortOrder = "asc"

\* a click on the active column, then a click on another column while the
\* order is descending
C5_Witness ==
  /\ Len(hist) = 2
  /\ hist[1].kind = "sort" /\ hist[1].before.key = hist[1].value
  /\ hist[2].kind = "sort" /\ hist[2].before.key # hist[2].value
  /\ hist[2].before.order = "desc"

UncheckThenCheck(kind) ==
  /\ Len(hist) = 2
  /\ hist[1].kind = kind /\ ~hist[1].checked
  /\ hist[2].kind = kind /\ hist[2].checked
  /\ hist[2].value = hist[1].value

\* C6: unchecking a selected status value and then checking it again gives
\* back the status filter from before the two events; the same for owners.
C6_TogglePair ==
  /\ ( /\ UncheckThenCheck("status")
       /\ ToNumber(hist[1].value) \in Range(hist[1].before.status) )
     => statusFilter = hist[1].before.status
  /\ ( /\ UncheckThenCheck("owner")
       /\ hist[1].value \in Range(hist[1].before.owner) )
     => ownerFilter = hist[1].before.owner

\* the first selected status is toggled off and on while a later one stays
C6_Witness ==
  /\ UncheckThenCheck("status")
  /\ Len(hist[1].before.status) >= 2
  /\ ToNumber(hist[1].value) = hist[1].before.status[1]

\* C7: when a submitted comment's saveComment call rejects (and the user has
\* not touched the form meanwhile), the draft is what it was before the
\* submit, and saveComment has not been called again.
C7_DraftSurvivesFailure ==
  (lastSubmit.outcome = "rejected" /\ ~lastSubmit.touched)
  => (newComment = lastSubmit.body /\ saveCalls = lastSubmit.calls)

\* C8: the edit page renders the form, bound to updateTask, only for a found
\* task whose owner is the resolved user; a missing task renders 'not found',
\* a found task with any other user result renders 'no permission', and no
\* render throws.
C8_EditPageStates ==
  LET found == ~Falsy(editTask)
      owns == found /\ ~Falsy(editUser) /\ editUser._id = editTask.ownerId IN
  /\ editView.kind # "throws"
  /\ editView.kind = "form" => (owns /\ editView.mutationName = "updateTask")
  /\ editTask = Null => editView.kind = "not_found"
  /\ (found /\ ~owns) => editView.kind = "no_permission"
  /\ owns => editView.kind = "form"

\* a found task without an owner, seen by a user who is still loading or anonymous
C8_Witness ==
  /\ ~Falsy(editTask)
  /\ editTask.ownerId = Null
  /\ Falsy(editUser)
  /\ editView.kind = "no_permission"

\* C9: a successful call stores the number max(existing numbers) + 1 (1 for
\* an empty table), whatever the payload holds, and the most recently created
\* task holds the largest number of the table.
C9_NumberIsMaxPlusOne ==
  /\ Created => tasks[Len(tasks)].number = MaxNumber(lastCall.before) + 1
  /\ Len(tasks) > 0 => tasks[Len(tasks)].number = MaxNumber(tasks)

\* C10: the selected statuses are members of STATUS_VALUES without
\* duplicates, the selected owners members of OWNER_VALUES without
\* duplicates, and the listTasks query receives the two lists as they are.
C10_FiltersValid ==
  /\ Range(statusFilter) \subseteq Range(STATUS_VALUES)
  /\ NoDuplicates(statusFilter)
  /\ Range(ownerFilter) \subseteq Range(OWNER_VALUES)
  /\ NoDuplicates(ownerFilter)
  /\ listTasksArgs.statusFilter = statusFilter
  /\ listTasksArgs.ownerFilter = ownerFilter

\* both lists emptied by events, and the query sent with the empty lists
C10_Witness ==
  /\ Len(hist) > 0
  /\ statusFilter = <<>>
  /\ ownerFilter = <<>>
  /\ listTasksArgs.statusFilter = <<>>
  /\ listTasksArgs.ownerFilter = <<>>

====
